---- MODULE Spec2Model ----
(***************************************************************************)
(* Policy Hub: release-driven delivery of immutable policy versions.      *)
(* The operations of .github/actions/policy-operations/index.js (detect,  *)
(* validate, check-status, check-api-existence, publish, update-state)    *)
(* are driven by the batch-release workflow drawn in the flowchart at the *)
(* end of that file.  The registry (Policy Hub API) and the validator's   *)
(* verdict on a folder's content are the environment.                     *)
(***************************************************************************)
EXTENDS Integers, Sequences, FiniteSets, TLC

\* ------------------------------------------------------------------ bounds
MaxRuns == 2        \* release events considered

\* --------------------------------------------------------------- constants
\* policy folders policies/<name>/<version>; the number orders them by name
Policies == {1, 2, 3}
\* content of a policy folder in a tree
Contents == {"absent", "good", "bad"}
\* release value written by the probe ('api-existing'); run tags are >= 1
ApiExisting == 0
NoRelease == -1
\* absence of a key in delivered.json
NoRec == [deliveredAt |-> 0, release |-> NoRelease, note |-> "undefined"]
VARIABLES
    headSha, headTree,      \* HEAD commit of the repository and its tree
    historyRewritten,       \* the baseline commit is no longer in the history
    baselineSha, baseTree,  \* .state/baseline.sha and the tree of that commit
    delivered,              \* .state/delivered.json as committed
    ledgerWrites,           \* commits of .state made by the current run
    registry, created, keysSeen,  \* Policy Hub API: held policies, creations, keys
    phase, runNo,           \* workflow position, number of releases
    runHead,                \* GITHUB_SHA of the current run (the release commit)
    changed, matrix,        \* detect: changed folders, policies needing processing
    stage,                  \* per policy: position of its matrix jobs
    checkResult,            \* per policy: check-result output of the probe
    decision,               \* per policy: outputs of check-status
    jobState,               \* per policy: delivered.json in its job's workspace
    uploaded,               \* policies whose job uploaded a state artifact
    validateCalls, publishCalls,  \* per policy: calls issued in this run
    lastStatus,             \* per policy: statusCode of its publish result (0: none)
    failedSteps,            \* steps of this run that ended in core.setFailed
    startLedger, startBaseline,   \* delivered.json / baseline.sha at run start
    prev,                   \* summary of the previous run
    callArgs, callResult,   \* calls of one function: inputs, results
    concRuns,               \* two runs that overlap: position of each
    writers,                \* two operations on one state file, and the file
    limiter                 \* rate-limiter policy: its fields, clock, history

vars == <<headSha, headTree, historyRewritten, baselineSha, baseTree, delivered,
          ledgerWrites, registry, created,
          keysSeen, phase, runNo, runHead, changed, matrix, stage, checkResult,
          decision, jobState, uploaded, validateCalls, publishCalls, lastStatus,
          failedSteps, startLedger, startBaseline, prev, callArgs, callResult,
          concRuns, writers, limiter>>

repoVars == <<headSha, headTree, historyRewritten>>
apiVars == <<registry, created, keysSeen>>
ledgerVars == <<baselineSha, baseTree, delivered>>
startVars == <<startLedger, startBaseline, prev, changed, matrix, runNo, runHead>>
callVars == <<callArgs, callResult, concRuns, writers, limiter>>
workflowVars == <<headSha, headTree, historyRewritten, baselineSha, baseTree,
                  delivered, ledgerWrites, registry,
                  created, keysSeen, phase, runNo, runHead, changed, matrix, stage,
                  checkResult, decision, jobState, uploaded, validateCalls,
                  publishCalls, lastStatus, failedSteps, startLedger,
                  startBaseline, prev>>

\* ----------------------------------------------------------------- helpers
Range(s) == {s[i] : i \in 1..Len(s)}

Min(S) == CHOOSE x \in S : \A y \in S : x <= y

RECURSIVE SortedSeq(_)
SortedSeq(S) == IF S = {} THEN <<>>
                ELSE <<Min(S)>> \o SortedSeq(S \ {Min(S)})

NoDecision == [shouldDeliver |-> FALSE, reason |-> "none"]
\* no call made
NoCall == <<>>
\* no two runs overlap
NoConcRuns == <<>>
\* no operation on a shared state file
NoWriters == <<>>
\* no rate-limiter policy loaded
NoLimiter == <<>>

NoPrev == [valid |-> FALSE, head |-> 0, ledger |-> [p \in Policies |-> NoRec],
           ok |-> FALSE, failed |-> {}, complete |-> FALSE, unrecorded |-> {}]

\* ------------------------------------------------- the registry's answers
\* answers to GET /policies/<name>/<version>: a transport error or timeout,
\* a server error, or the truth (200 with a JSON body or not, 404)
GetResponses(p) ==
    {[kind |-> "error", statusCode |-> 0, json |-> FALSE],
     [kind |-> "response", statusCode |-> 500, json |-> TRUE]}
    \cup (IF p \in registry
          THEN {[kind |-> "response", statusCode |-> 200, json |-> j] : j \in BOOLEAN}
          ELSE {[kind |-> "response", statusCode |-> 404, json |-> TRUE]})

\* bodies of a response: a JSON object with a message, a JSON object without,
\* the JSON literal null, text that is not JSON, nothing
Bodies == {"json-message", "json-object", "json-null", "text", "empty"}

\* the bodies the registry is taken to send in the workflow: an object or null
\* (the other bodies are handled as an object's are)
PostBodies == {"json-object", "json-null"}

\* answers to POST /policies carrying X-Idempotency-Key = key: a transport
\* error (before, or after the registry stored the policy), a server error,
\* 409 when the policy is held or the key was seen, 201 with creation else
PostResponses(p, key) ==
    LET dup == p \in registry \/ key \in keysSeen IN
    {[kind |-> "error", statusCode |-> 0, body |-> "empty", creates |-> FALSE]}
    \cup {[kind |-> "response", statusCode |-> 500, body |-> b, creates |-> FALSE] :
              b \in PostBodies}
    \cup (IF dup
          THEN {[kind |-> "response", statusCode |-> 409, body |-> b,
                 creates |-> FALSE] : b \in PostBodies}
          ELSE {[kind |-> "response", statusCode |-> 201, body |-> b,
                 creates |-> TRUE] : b \in PostBodies}
               \cup {[kind |-> "error", statusCode |-> 0, body |-> "empty",
                      creates |-> TRUE]})

\* ------------------------------------------------ index.js: pure functions
\* git diff --name-only baseline..HEAD, reduced to the policy folders
GitDiff(base, head) == {p \in Policies : base[p] # head[p]}

\* detect does not verify the baseline commit before the diff
baselineShaExists_Unchecked(rewritten) == TRUE

\* git cat-file -e <baseline-sha>
baselineShaExists(rewritten) == ~rewritten

\* the filter of detect lets every changed folder through
isAlreadyDelivered_Never(policy, deliveryState) == FALSE

isAlreadyDelivered(policy, deliveryState) == deliveryState[policy] # NoRec

\* detect without its early filter on delivered.json
detectChangedPolicies_NoFilter(diff, deliveryState) ==
    [policies |-> SortedSeq(diff), count |-> Cardinality(diff)]

detectChangedPolicies(diff, deliveryState) ==
    LET newPolicies == {p \in diff : ~isAlreadyDelivered(p, deliveryState)} IN
    [policies |-> SortedSeq(newPolicies), count |-> Cardinality(newPolicies)]

\* a record written by the probe does not count as a delivery
shouldDeliver_ProbeRedelivers(policyPath, deliveryState) ==
    LET record == deliveryState[policyPath] IN
    IF record = NoRec
    THEN [shouldDeliver |-> TRUE, reason |-> "never-delivered"]
    ELSE IF record.release = ApiExisting
    THEN [shouldDeliver |-> TRUE, reason |-> "sha-changed"]
    ELSE [shouldDeliver |-> FALSE, reason |-> "version-immutable"]

shouldDeliver(policyPath, deliveryState) ==
    LET record == deliveryState[policyPath] IN
    IF record = NoRec
    THEN [shouldDeliver |-> TRUE, reason |-> "never-delivered"]
    ELSE [shouldDeliver |-> FALSE, reason |-> "version-immutable"]

\* the record is built but not stored in the state
updatePolicyRecord_NoWrite(state, policyPath, releaseTag, now) == state

updatePolicyRecord(state, policyPath, releaseTag, now) ==
    [state EXCEPT ![policyPath] =
        [deliveredAt |-> now, release |-> releaseTag, note |-> "undefined"]]

\* update-state writes a file that holds the new record alone
updateDeliveryState_Overwrites(state, policyPath, releaseTag, now) ==
    [state |-> updatePolicyRecord([p \in Policies |-> NoRec], policyPath,
                                  releaseTag, now),
     stateUpdated |-> TRUE, failed |-> TRUE]

\* writes the record, sets state-updated, then throws on the undeclared
\* previousSha of its return statement
updateDeliveryState(state, policyPath, releaseTag, now) ==
    [state |-> updatePolicyRecord(state, policyPath, releaseTag, now),
     stateUpdated |-> TRUE, failed |-> TRUE]

\* the probe's mark-as-delivered is lost
updateStateForExistingPolicy_NoWrite(state, policyPath, now) == state

updateStateForExistingPolicy(state, policyPath, now) ==
    [state EXCEPT ![policyPath] =
        [deliveredAt |-> now, release |-> ApiExisting, note |-> "api-existing"]]

\* a 200 answer is not taken as existence
checkPolicyExistsInApi_Misses200(response) ==
    IF response.kind = "error" THEN "throw"
    ELSE IF response.statusCode \in {200, 404} THEN "absent"
    ELSE "throw"

checkPolicyExistsInApi(response) ==
    IF response.kind = "error" THEN "throw"
    ELSE IF response.statusCode = 200
         THEN (IF response.json THEN "exists" ELSE "throw")
    ELSE IF response.statusCode = 404 THEN "absent"
    ELSE "throw"

\* a failed existence check is rethrown and fails the step
checkApiExistence_Rethrow(response, state, policyPath, now) ==
    LET existsResult == checkPolicyExistsInApi(response) IN
    IF existsResult = "exists"
    THEN [state |-> updateStateForExistingPolicy(state, policyPath, now),
          shouldSkip |-> TRUE, checkResult |-> "exists-in-api", failed |-> FALSE]
    ELSE IF existsResult = "absent"
    THEN [state |-> state,
          shouldSkip |-> FALSE, checkResult |-> "not-in-api", failed |-> FALSE]
    ELSE [state |-> state,
          shouldSkip |-> FALSE, checkResult |-> "check-failed", failed |-> TRUE]

checkApiExistence(response, state, policyPath, now) ==
    LET existsResult == checkPolicyExistsInApi(response) IN
    IF existsResult = "exists"
    THEN [state |-> updateStateForExistingPolicy(state, policyPath, now),
          shouldSkip |-> TRUE, checkResult |-> "exists-in-api", failed |-> FALSE]
    ELSE IF existsResult = "absent"
    THEN [state |-> state,
          shouldSkip |-> FALSE, checkResult |-> "not-in-api", failed |-> FALSE]
    ELSE [state |-> state,
          shouldSkip |-> FALSE, checkResult |-> "check-failed", failed |-> FALSE]

\* the validator's verdict on a folder: the number of errors it reports
ValidationErrors(content) == IF content = "good" THEN 0 ELSE 1

\* the step passes whatever the validator's error list holds
validatePolicy_IgnoresErrors(content) ==
    IF content = "absent" THEN [valid |-> FALSE, failed |-> TRUE]
    ELSE [valid |-> TRUE, failed |-> FALSE]

validatePolicy(content) ==
    IF content = "absent" THEN [valid |-> FALSE, failed |-> TRUE]
    ELSE LET isValid == ValidationErrors(content) = 0 IN
         [valid |-> isValid, failed |-> ~isValid]

\* responseData of publishToApi: JSON.parse(body), or { message: body } when
\* the body is not JSON; what matters is whether it is null and whether its
\* message is truthy
parseResponseBody(body) ==
    IF body = "json-null" THEN "null"
    ELSE IF body \in {"json-message", "text"} THEN "with-message"
    ELSE "without-message"

\* 409 is not widened to a success
publishToApi_ConflictFails(response) ==
    LET responseData == parseResponseBody(response.body)
        is2xx == response.statusCode >= 200 /\ response.statusCode < 300 IN
    IF response.kind = "error"
    THEN [success |-> FALSE, statusCode |-> 0, message |-> "error-message"]
    ELSE IF responseData = "null"
    THEN [success |-> FALSE, statusCode |-> 0, message |-> "type-error"]
    ELSE IF is2xx
    THEN [success |-> TRUE, statusCode |-> response.statusCode,
          message |-> IF responseData = "with-message" THEN "response-message"
                      ELSE "published-successfully"]
    ELSE [success |-> FALSE, statusCode |-> response.statusCode,
          message |-> IF responseData = "with-message" THEN "response-message"
                      ELSE "api-returned-status"]

\* a rejected request (error, timeout) is reported as a success
publishToApi_ErrorSwallowed(response) ==
    LET responseData == parseResponseBody(response.body)
        is2xx == response.statusCode >= 200 /\ response.statusCode < 300 IN
    IF response.kind = "error"
    THEN [success |-> TRUE, statusCode |-> 0, message |-> "error-message"]
    ELSE IF responseData = "null" /\ response.statusCode # 409
    THEN [success |-> FALSE, statusCode |-> 0, message |-> "type-error"]
    ELSE IF is2xx \/ response.statusCode = 409
    THEN [success |-> TRUE, statusCode |-> response.statusCode,
          message |-> "published-successfully"]
    ELSE [success |-> FALSE, statusCode |-> response.statusCode,
          message |-> "api-returned-status"]

\* a rejected request yields { success: false, message: error.message }; a
\* response is read into responseData and classified by its status; reading
\* responseData.message of null throws inside the try block and ends in the
\* same catch; statusCode 0 stands for a result without statusCode
publishToApi(response) ==
    LET responseData == parseResponseBody(response.body)
        is2xx == response.statusCode >= 200 /\ response.statusCode < 300 IN
    IF response.kind = "error"
    THEN [success |-> FALSE, statusCode |-> 0, message |-> "error-message"]
    ELSE IF is2xx
    THEN (IF responseData = "null"
          THEN [success |-> FALSE, statusCode |-> 0, message |-> "type-error"]
          ELSE [success |-> TRUE, statusCode |-> response.statusCode,
                message |-> IF responseData = "with-message" THEN "response-message"
                            ELSE "published-successfully"])
    ELSE IF response.statusCode = 409
    THEN [success |-> TRUE, statusCode |-> response.statusCode,
          message |-> "already-published"]
    ELSE (IF responseData = "null"
          THEN [success |-> FALSE, statusCode |-> 0, message |-> "type-error"]
          ELSE [success |-> FALSE, statusCode |-> response.statusCode,
                message |-> IF responseData = "with-message" THEN "response-message"
                            ELSE "api-returned-status"])

\* only a creation (2xx) counts as published
publishPolicy_CreationOnly(response) ==
    LET result == publishToApi(response)
        isCreation == result.success /\ result.statusCode # 409 IN
    [published |-> isCreation, statusCode |-> result.statusCode,
     failed |-> ~isCreation]

publishPolicy(response) ==
    LET result == publishToApi(response) IN
    [published |-> result.success, statusCode |-> result.statusCode,
     failed |-> ~result.success]

\* the merged state is replaced by the artifact instead of extended by it
ObjectAssign_Replace(mergedState, newState) == newState

\* Object.assign(mergedState, newState): the keys of newState win
ObjectAssign(mergedState, newState) ==
    [p \in Policies |-> IF newState[p] # NoRec THEN newState[p] ELSE mergedState[p]]

\* the merged state is the state file that comes last
MergeStates_LastWins(mergedState, artifacts) ==
    IF artifacts = <<>> THEN mergedState ELSE artifacts[Len(artifacts)]

RECURSIVE MergeStates(_, _)
MergeStates(mergedState, artifacts) ==
    IF artifacts = <<>> THEN mergedState
    ELSE MergeStates(ObjectAssign(mergedState, Head(artifacts)), Tail(artifacts))

\* ------------------------------------------------------ workflow positions
InMatrix(p) == p \in Range(matrix)

Terminal == {"exists", "invalid", "skipped", "pubfailed", "recorded"}

\* the RunOutcome of a changed policy
Outcome(p) ==
    IF p \notin changed THEN "none"
    ELSE IF ~InMatrix(p) THEN "skipped"
    ELSE IF stage[p] \in {"exists", "recorded"} THEN "delivered"
    ELSE IF stage[p] = "skipped" THEN "skipped"
    ELSE IF stage[p] = "invalid" THEN "validation-failed"
    ELSE IF stage[p] = "pubfailed" THEN "publish-failed"
    ELSE "in-progress"

\* a failed publish does not count as a failure of the policy
Failed_PublishIgnored(p) == Outcome(p) = "validation-failed"

Failed(p) == Outcome(p) \in {"validation-failed", "publish-failed"}

\* the baseline is advanced whatever the outcomes
AllSuccess_Always == TRUE

\* "All Policies Published Successfully?"
AllSuccess == \A p \in Range(matrix) : ~Failed(p)

\* the state artifacts the finalize job downloads, in matrix order
RECURSIVE Artifacts(_)
Artifacts(m) ==
    IF m = <<>> THEN <<>>
    ELSE (IF Head(m) \in uploaded THEN <<jobState[Head(m)]>> ELSE <<>>)
         \o Artifacts(Tail(m))

Between == phase \in {"idle", "done", "aborted", "failed", "finalize-failed"}

RunSummary ==
    IF phase = "idle" THEN NoPrev
    ELSE [valid |-> TRUE, head |-> runHead, ledger |-> delivered,
          ok |-> phase = "done" /\ AllSuccess,
          failed |-> {p \in Policies : Failed(p)},
          complete |-> phase = "done",
          unrecorded |-> {p \in registry : delivered[p] = NoRec}]

\* ----------------------------------------------------------------- actions
\* the repository before its first release, whatever its tree is
WorkflowInit(trees) ==
    /\ headSha = 1
    /\ headTree \in trees
    /\ historyRewritten = FALSE
    /\ baselineSha = 0
    /\ baseTree = [p \in Policies |-> "absent"]
    /\ delivered = [p \in Policies |-> NoRec]
    /\ ledgerWrites = 0
    /\ registry = {}
    /\ created = [p \in Policies |-> 0]
    /\ keysSeen = {}
    /\ phase = "idle"
    /\ runNo = 0
    /\ runHead = 0
    /\ changed = {}
    /\ matrix = <<>>
    /\ stage = [p \in Policies |-> "none"]
    /\ checkResult = [p \in Policies |-> "none"]
    /\ decision = [p \in Policies |-> NoDecision]
    /\ jobState = [p \in Policies |-> delivered]
    /\ uploaded = {}
    /\ validateCalls = [p \in Policies |-> 0]
    /\ publishCalls = [p \in Policies |-> 0]
    /\ lastStatus = [p \in Policies |-> 0]
    /\ failedSteps = {}
    /\ startLedger = delivered
    /\ startBaseline = baselineSha
    /\ prev = NoPrev

\* the folders are named so that in the first release's tree the valid ones
\* come first, the invalid ones next and the absent ones last
FirstTrees ==
    LET Rank(c) == IF c = "good" THEN 1 ELSE IF c = "bad" THEN 2 ELSE 3 IN
    {t \in [Policies -> Contents] :
        \A p, q \in Policies : p < q => Rank(t[p]) <= Rank(t[q])}

Init ==
    /\ WorkflowInit(FirstTrees)
    /\ callArgs = NoCall
    /\ callResult = NoCall
    /\ concRuns = NoConcRuns
    /\ writers = NoWriters
    /\ limiter = NoLimiter

\* the commits since the last release: none, or one that touches one policy
\* folder or none; the first release is cut at the initial head, whose tree
\* is arbitrary
Commits ==
    {[n |-> 0, tree |-> headTree]}
    \cup (IF phase = "idle" THEN {}
          ELSE {[n |-> 1, tree |-> [headTree EXCEPT ![p] = c]] :
                   p \in Policies, c \in Contents})

\* a release event at the current head: Initialize and Detect Policies
\* jobs; no policy to process leads straight to the Summary job
StartRun ==
    /\ Between
    /\ runNo < MaxRuns
    /\ \E commit \in Commits :
          /\ headSha' = headSha + commit.n
          /\ headTree' = commit.tree
    /\ IF baselineShaExists(historyRewritten)
       THEN LET diff == GitDiff(baseTree, headTree')
                det == detectChangedPolicies(diff, delivered) IN
            /\ changed' = diff
            /\ matrix' = det.policies
            /\ phase' = IF det.count = 0 THEN "done" ELSE "matrix"
            /\ stage' = [p \in Policies |->
                            IF p \in Range(det.policies) THEN "probe" ELSE "none"]
            /\ failedSteps' = {}
       ELSE /\ changed' = {}
            /\ matrix' = <<>>
            /\ phase' = "failed"
            /\ stage' = [p \in Policies |-> "none"]
            /\ failedSteps' = {<<0, "detect">>}
    /\ prev' = RunSummary
    /\ runNo' = runNo + 1
    /\ runHead' = headSha'
    /\ startLedger' = delivered
    /\ startBaseline' = baselineSha
    /\ checkResult' = [p \in Policies |-> "none"]
    /\ decision' = [p \in Policies |-> NoDecision]
    /\ jobState' = [p \in Policies |-> delivered]
    /\ uploaded' = {}
    /\ validateCalls' = [p \in Policies |-> 0]
    /\ publishCalls' = [p \in Policies |-> 0]
    /\ lastStatus' = [p \in Policies |-> 0]
    /\ ledgerWrites' = 0
    /\ UNCHANGED <<callVars, historyRewritten, apiVars, ledgerVars>>

\* the history of the branch is rewritten between two releases: the commit
\* named by baseline.sha is in no later checkout
RewriteHistory ==
    /\ Between
    /\ phase # "idle"
    /\ runNo < MaxRuns
    /\ ~historyRewritten
    /\ historyRewritten' = TRUE
    /\ UNCHANGED <<callVars, ledgerWrites, headSha, headTree, apiVars,
                   ledgerVars, startVars, phase, stage, checkResult, decision,
                   jobState, uploaded, validateCalls, publishCalls,
                   lastStatus, failedSteps>>

\* the probe's mark-as-delivered goes to the committed delivered.json
Probe_WritesLedger(p) ==
    /\ phase = "matrix"
    /\ stage[p] = "probe"
    /\ \E response \in GetResponses(p) :
          LET r == checkApiExistence(response, jobState[p], p, runNo) IN
          /\ jobState' = [jobState EXCEPT ![p] = r.state]
          /\ delivered' = r.state
          /\ checkResult' = [checkResult EXCEPT ![p] = r.checkResult]
          /\ stage' = [stage EXCEPT ![p] = IF r.shouldSkip THEN "exists" ELSE "validate"]
          /\ uploaded' = IF r.shouldSkip THEN uploaded \cup {p} ELSE uploaded
          /\ failedSteps' = IF r.failed
                            THEN failedSteps \cup {<<p, "check-api-existence">>}
                            ELSE failedSteps
    /\ UNCHANGED <<callVars, ledgerWrites, repoVars, apiVars, baselineSha,
                   baseTree, startVars, phase, decision, validateCalls,
                   publishCalls, lastStatus>>

\* validate-and-check job, step 1: check-api-existence; on exists the state
\* artifact is uploaded and validation and publishing are skipped
Probe(p) ==
    /\ phase = "matrix"
    /\ stage[p] = "probe"
    /\ \E response \in GetResponses(p) :
          LET r == checkApiExistence(response, jobState[p], p, runNo) IN
          /\ jobState' = [jobState EXCEPT ![p] = r.state]
          /\ checkResult' = [checkResult EXCEPT ![p] = r.checkResult]
          /\ stage' = [stage EXCEPT ![p] = IF r.shouldSkip THEN "exists" ELSE "validate"]
          /\ uploaded' = IF r.shouldSkip THEN uploaded \cup {p} ELSE uploaded
          /\ failedSteps' = IF r.failed
                            THEN failedSteps \cup {<<p, "check-api-existence">>}
                            ELSE failedSteps
    /\ UNCHANGED <<callVars, ledgerWrites, repoVars, apiVars, ledgerVars,
                   startVars, phase, decision, validateCalls, publishCalls,
                   lastStatus>>

\* the matrix is fail-fast: a failed validation cancels the jobs of the
\* other policies that have not ended
Validate_FailFast(p) ==
    /\ phase = "matrix"
    /\ stage[p] = "validate"
    /\ LET r == validatePolicy(headTree[p]) IN
       /\ stage' = IF r.valid THEN [stage EXCEPT ![p] = "ready"]
                  ELSE [q \in Policies |->
                           IF q = p THEN "invalid"
                           ELSE IF InMatrix(q) /\ stage[q] \notin Terminal
                                THEN "skipped" ELSE stage[q]]
       /\ failedSteps' = IF r.failed THEN failedSteps \cup {<<p, "validate">>}
                         ELSE failedSteps
    /\ validateCalls' = [validateCalls EXCEPT ![p] = @ + 1]
    /\ UNCHANGED <<callVars, ledgerWrites, repoVars, apiVars, ledgerVars,
                   startVars, phase, checkResult, decision, jobState,
                   uploaded, publishCalls, lastStatus>>

\* validate-and-check job, step 2: validate
Validate(p) ==
    /\ phase = "matrix"
    /\ stage[p] = "validate"
    /\ LET r == validatePolicy(headTree[p]) IN
       /\ stage' = [stage EXCEPT ![p] = IF r.valid THEN "ready" ELSE "invalid"]
       /\ failedSteps' = IF r.failed THEN failedSteps \cup {<<p, "validate">>}
                         ELSE failedSteps
    /\ validateCalls' = [validateCalls EXCEPT ![p] = @ + 1]
    /\ UNCHANGED <<callVars, ledgerWrites, repoVars, apiVars, ledgerVars,
                   startVars, phase, checkResult, decision, jobState,
                   uploaded, publishCalls, lastStatus>>

\* the publish jobs start only when every validation of the run has passed
CheckStatus_NeedsAllValid(p) ==
    /\ phase = "matrix"
    /\ stage[p] = "ready"
    /\ \A q \in Range(matrix) : stage[q] \notin {"probe", "validate", "invalid"}
    /\ LET d == shouldDeliver(p, jobState[p]) IN
       /\ decision' = [decision EXCEPT ![p] = d]
       /\ stage' = [stage EXCEPT ![p] = IF d.shouldDeliver THEN "publish" ELSE "skipped"]
    /\ UNCHANGED <<callVars, ledgerWrites, repoVars, apiVars, ledgerVars,
                   startVars, phase, checkResult, jobState, uploaded,
                   validateCalls, publishCalls, lastStatus, failedSteps>>

\* the publish job does not wait for the validate-and-check job of its policy
CheckStatus_Unordered(p) ==
    /\ phase = "matrix"
    /\ stage[p] \in {"validate", "ready"}
    /\ LET d == shouldDeliver(p, jobState[p]) IN
       /\ decision' = [decision EXCEPT ![p] = d]
       /\ stage' = [stage EXCEPT ![p] = IF d.shouldDeliver THEN "publish" ELSE "skipped"]
    /\ UNCHANGED <<callVars, ledgerWrites, repoVars, apiVars, ledgerVars,
                   startVars, phase, checkResult, jobState, uploaded,
                   validateCalls, publishCalls, lastStatus, failedSteps>>

\* publish job, "Should Deliver This Policy?": check-status; the publish
\* jobs start when every validate-and-check job has ended
CheckStatus(p) ==
    /\ phase = "matrix"
    /\ stage[p] = "ready"
    /\ \A q \in Range(matrix) : stage[q] \notin {"probe", "validate"}
    /\ LET d == shouldDeliver(p, jobState[p]) IN
       /\ decision' = [decision EXCEPT ![p] = d]
       /\ stage' = [stage EXCEPT ![p] = IF d.shouldDeliver THEN "publish" ELSE "skipped"]
    /\ UNCHANGED <<callVars, ledgerWrites, repoVars, apiVars, ledgerVars,
                   startVars, phase, checkResult, jobState, uploaded,
                   validateCalls, publishCalls, lastStatus, failedSteps>>

\* a successful publish step writes the record into the committed
\* delivered.json itself
Publish_WritesLedger(p) ==
    /\ phase = "matrix"
    /\ stage[p] = "publish"
    /\ \E response \in PostResponses(p, runHead) :
          LET r == publishPolicy(response) IN
          /\ registry' = IF response.creates THEN registry \cup {p} ELSE registry
          /\ created' = IF response.creates THEN [created EXCEPT ![p] = @ + 1]
                        ELSE created
          /\ keysSeen' = IF response.creates THEN keysSeen \cup {runHead}
                         ELSE keysSeen
          /\ lastStatus' = [lastStatus EXCEPT ![p] = r.statusCode]
          /\ stage' = [stage EXCEPT ![p] = IF r.published THEN "published" ELSE "pubfailed"]
          /\ failedSteps' = IF r.failed THEN failedSteps \cup {<<p, "publish">>}
                            ELSE failedSteps
          /\ delivered' = IF r.published
                          THEN updatePolicyRecord(delivered, p, runNo, runNo)
                          ELSE delivered
    /\ publishCalls' = [publishCalls EXCEPT ![p] = @ + 1]
    /\ UNCHANGED <<callVars, ledgerWrites, repoVars, baselineSha, baseTree,
                   startVars, phase, checkResult, decision, jobState,
                   uploaded, validateCalls>>

\* publish job: publish (POST with X-Idempotency-Key = GITHUB_SHA)
Publish(p) ==
    /\ phase = "matrix"
    /\ stage[p] = "publish"
    /\ \E response \in PostResponses(p, runHead) :
          LET r == publishPolicy(response) IN
          /\ registry' = IF response.creates THEN registry \cup {p} ELSE registry
          /\ created' = IF response.creates THEN [created EXCEPT ![p] = @ + 1]
                        ELSE created
          /\ keysSeen' = IF response.creates THEN keysSeen \cup {runHead}
                         ELSE keysSeen
          /\ lastStatus' = [lastStatus EXCEPT ![p] = r.statusCode]
          /\ stage' = [stage EXCEPT ![p] = IF r.published THEN "published" ELSE "pubfailed"]
          /\ failedSteps' = IF r.failed THEN failedSteps \cup {<<p, "publish">>}
                            ELSE failedSteps
    /\ publishCalls' = [publishCalls EXCEPT ![p] = @ + 1]
    /\ UNCHANGED <<callVars, ledgerWrites, repoVars, ledgerVars, startVars,
                   phase, checkResult, decision, jobState, uploaded,
                   validateCalls>>

\* update-state of one policy also moves baseline.sha to the run's commit
UpdateState_AdvancesBaseline(p) ==
    /\ phase = "matrix"
    /\ stage[p] = "published"
    /\ LET r == updateDeliveryState(jobState[p], p, runNo, runNo) IN
       /\ jobState' = [jobState EXCEPT ![p] = r.state]
       /\ failedSteps' = IF r.failed THEN failedSteps \cup {<<p, "update-state">>}
                         ELSE failedSteps
    /\ uploaded' = uploaded \cup {p}
    /\ stage' = [stage EXCEPT ![p] = "recorded"]
    /\ baselineSha' = runHead
    /\ baseTree' = headTree
    /\ UNCHANGED <<callVars, ledgerWrites, repoVars, apiVars, delivered,
                   startVars, phase, checkResult, decision, validateCalls,
                   publishCalls, lastStatus>>

\* publish job: update-state, then upload of the state artifact
UpdateState(p) ==
    /\ phase = "matrix"
    /\ stage[p] = "published"
    /\ LET r == updateDeliveryState(jobState[p], p, runNo, runNo) IN
       /\ jobState' = [jobState EXCEPT ![p] = r.state]
       /\ failedSteps' = IF r.failed THEN failedSteps \cup {<<p, "update-state">>}
                         ELSE failedSteps
    /\ uploaded' = uploaded \cup {p}
    /\ stage' = [stage EXCEPT ![p] = "recorded"]
    /\ UNCHANGED <<callVars, ledgerWrites, repoVars, apiVars, ledgerVars,
                   startVars, phase, checkResult, decision, validateCalls,
                   publishCalls, lastStatus>>

\* delivered.json is committed, the update of baseline.sha is not
FinalizeState_LedgerOnly ==
    /\ phase = "matrix"
    /\ \A p \in Range(matrix) : stage[p] \in Terminal
    /\ delivered' = MergeStates(delivered, Artifacts(matrix))
    /\ ledgerWrites' = ledgerWrites + 1
    /\ phase' = "done"
    /\ UNCHANGED <<callVars, repoVars, apiVars, startVars, baselineSha,
                   baseTree, stage, checkResult, decision, jobState, uploaded,
                   validateCalls, publishCalls, lastStatus, failedSteps>>

\* the finalize job ends without committing delivered.json and baseline.sha
FinalizeState_NoCommit ==
    /\ phase = "matrix"
    /\ \A p \in Range(matrix) : stage[p] \in Terminal
    /\ phase' = "done"
    /\ UNCHANGED <<callVars, ledgerWrites, repoVars, apiVars, ledgerVars,
                   startVars, stage, checkResult, decision, jobState,
                   uploaded, validateCalls, publishCalls, lastStatus,
                   failedSteps>>

\* finalize-state job: merge the artifacts, write delivered.json, advance
\* baseline.sha if every policy succeeded, commit
FinalizeState ==
    /\ phase = "matrix"
    /\ \A p \in Range(matrix) : stage[p] \in Terminal
    /\ delivered' = MergeStates(delivered, Artifacts(matrix))
    /\ baselineSha' = IF AllSuccess THEN runHead ELSE baselineSha
    /\ baseTree' = IF AllSuccess THEN headTree ELSE baseTree
    /\ ledgerWrites' = ledgerWrites + 1
    /\ phase' = "done"
    /\ UNCHANGED <<callVars, repoVars, apiVars, startVars, stage, checkResult,
                   decision, jobState, uploaded, validateCalls, publishCalls,
                   lastStatus, failedSteps>>

\* finalize-state job when a write of .state or the commit and push fails:
\* the job ends in failure, its workspace is dropped with whatever it wrote,
\* and the branch keeps the last committed delivered.json and baseline.sha
FinalizeFails ==
    /\ phase = "matrix"
    /\ \A p \in Range(matrix) : stage[p] \in Terminal
    /\ phase' = "finalize-failed"
    /\ failedSteps' = {<<0, "finalize-state">>}
    /\ stage' = [p \in Policies |-> "none"]
    /\ checkResult' = [p \in Policies |-> "none"]
    /\ decision' = [p \in Policies |-> NoDecision]
    /\ jobState' = [p \in Policies |-> delivered]
    /\ uploaded' = {}
    /\ validateCalls' = [p \in Policies |-> 0]
    /\ publishCalls' = [p \in Policies |-> 0]
    /\ lastStatus' = [p \in Policies |-> 0]
    /\ UNCHANGED <<callVars, ledgerWrites, repoVars, apiVars, ledgerVars,
                   startVars>>

\* the run is cancelled before the finalize-state job: the jobs' workspaces
\* and artifacts are gone, the repository and the registry stay as they are
AbortRun ==
    /\ phase = "matrix"
    /\ phase' = "aborted"
    /\ stage' = [p \in Policies |-> "none"]
    /\ checkResult' = [p \in Policies |-> "none"]
    /\ decision' = [p \in Policies |-> NoDecision]
    /\ jobState' = [p \in Policies |-> delivered]
    /\ uploaded' = {}
    /\ validateCalls' = [p \in Policies |-> 0]
    /\ publishCalls' = [p \in Policies |-> 0]
    /\ lastStatus' = [p \in Policies |-> 0]
    /\ failedSteps' = {}
    /\ UNCHANGED <<callVars, ledgerWrites, repoVars, apiVars, ledgerVars,
                   startVars>>

Next ==
    \/ StartRun
    \/ \E p \in Policies : Probe(p)
    \/ \E p \in Policies : Validate(p)
    \/ \E p \in Policies : CheckStatus(p)
    \/ \E p \in Policies : Publish(p)
    \/ \E p \in Policies : UpdateState(p)
    \/ FinalizeState
    \/ FinalizeFails
    \/ AbortRun
    \/ RewriteHistory

Spec == Init /\ [][Next]_vars

\* the workflow when no run is cancelled, the history is not rewritten and
\* the commit of .state succeeds, with every started job step and the
\* finalize job eventually executed by the runner
NextLive ==
    \/ StartRun
    \/ \E p \in Policies : Probe(p)
    \/ \E p \in Policies : Validate(p)
    \/ \E p \in Policies : CheckStatus(p)
    \/ \E p \in Policies : Publish(p)
    \/ \E p \in Policies : UpdateState(p)
    \/ FinalizeState

JobStep == \/ \E p \in Policies : Probe(p)
           \/ \E p \in Policies : Validate(p)
           \/ \E p \in Policies : CheckStatus(p)
           \/ \E p \in Policies : Publish(p)
           \/ \E p \in Policies : UpdateState(p)
           \/ FinalizeState

\* the first release of a repository that has at most the first two policies
LiveInit == Init /\ headTree[3] = "absent"

LiveSpec == LiveInit /\ [][NextLive]_vars /\ WF_vars(JobStep)

\* the workflow when no run is cancelled: the history may be rewritten and
\* the commit of .state may fail; the runner eventually executes every
\* started job step and the finalize job, and every request of a step ends
\* (response, error, or the 30 s timeout of makeRequest)
NextTerm ==
    \/ NextLive
    \/ FinalizeFails
    \/ RewriteHistory

\* the first release of a repository with a valid and an invalid policy
TermInit == Init /\ headTree = <<"good", "bad", "absent">>

TermSpec == TermInit /\ [][NextTerm]_vars /\ WF_vars(JobStep)

\* the run has ended: Summary job, failed detect job, failed finalize job
RunEnded == phase \in {"done", "failed", "finalize-failed"}

\* ------------------------------------------------ single calls of a function
\* status codes a response can carry
StatusCodes == {100, 199, 200, 201, 204, 299, 300, 302, 400, 401, 404, 408, 409,
                410, 422, 429, 500, 503}

\* what makeRequest hands to publishToApi: a rejection (error, timeout) or a
\* response with a status and a body
PublishInputs ==
    {[kind |-> "error", statusCode |-> 0, body |-> "empty"]}
    \cup {[kind |-> "response", statusCode |-> s, body |-> b] :
              s \in StatusCodes, b \in Bodies}

PublishInit ==
    /\ WorkflowInit({[p \in Policies |-> "absent"]})
    /\ callArgs \in {<<r>> : r \in PublishInputs}
    /\ callResult = NoCall
    /\ concRuns = NoConcRuns
    /\ writers = NoWriters
    /\ limiter = NoLimiter

\* one call of publishToApi on the response drawn
CallPublishToApi ==
    /\ Len(callArgs) = 1
    /\ Len(callResult) = 0
    /\ callResult' = <<publishToApi(callArgs[1])>>
    /\ UNCHANGED <<workflowVars, callArgs, concRuns, writers, limiter>>

PublishSpec == PublishInit /\ [][CallPublishToApi]_vars

\* ---------------------------------------------------- the publish request
\* process.env.GITHUB_SHA when the variable is unset or empty, and the
\* literal 'unknown' of the payload
UnsetSha == 0
UnknownSha == -1
\* commits that can trigger a run, and instants of the clock
Shas == {UnsetSha, 1, 2, 3}
Instants == {1, 2}

\* name, version, commitSha and timestamp of the payload (metadata and
\* definition are read from the folder and play no part in the headers)
preparePolicyPayload(policy, githubSha, now) ==
    [policy |-> policy,
     commitSha |-> IF githubSha # UnsetSha THEN githubSha ELSE UnknownSha,
     timestamp |-> now]

\* the key is taken from the clock
publishRequest_TimestampKey(githubSha, payload) ==
    [idempotencyKey |-> payload.timestamp, body |-> payload]

\* the POST request of publishToApi: X-Idempotency-Key and body
publishRequest(githubSha, payload) ==
    [idempotencyKey |-> IF githubSha # UnsetSha THEN githubSha
                        ELSE payload.commitSha,
     body |-> payload]

\* two publish requests: for each, the policy, GITHUB_SHA of the process and
\* the instant of the call
KeyInputs ==
    {[policy |-> p, githubSha |-> s, now |-> t] :
        p \in Policies, s \in Shas, t \in Instants}

KeyInit ==
    /\ WorkflowInit({[p \in Policies |-> "absent"]})
    /\ callArgs \in {<<a, b>> : a \in KeyInputs, b \in KeyInputs}
    /\ callResult = NoCall
    /\ concRuns = NoConcRuns
    /\ writers = NoWriters
    /\ limiter = NoLimiter

\* the next of the two requests is built
CallPublishRequest ==
    /\ Len(callArgs) = 2
    /\ Len(callResult) < 2
    /\ LET a == callArgs[Len(callResult) + 1] IN
       callResult' = Append(callResult,
           publishRequest(a.githubSha,
                          preparePolicyPayload(a.policy, a.githubSha, a.now)))
    /\ UNCHANGED <<workflowVars, callArgs, concRuns, writers, limiter>>

KeySpec == KeyInit /\ [][CallPublishRequest]_vars

\* --------------------------------------------------- detection on path names
MaxPaths == 3       \* changed files in one diff

\* a path is a sequence of segments, a segment a sequence of characters (a
\* word that is never taken apart counts as one character); "U+00E9" is a
\* character outside ASCII
Word(w) == <<w>>
V100 == <<"v", "1", ".", "0", ".", "0">>
V200 == <<"v", "2", ".", "0", ".", "0">>
V1000 == <<"v", "1", "0", ".", "0", ".", "0">>
ChangedPaths ==
    {<<Word("policies"), <<n>>, v, <<"x">>>> :
        n \in {"a", "b"}, v \in {V100, V200, V1000}}
    \cup {<<Word("policies"), <<"a">>, V100, <<"U+00E9">>>>,
          <<Word("policies"), <<"b">>, V200, <<"U+00E9">>>>,
          <<Word("policies"), <<"a">>, V100>>,
          <<Word("policies"), <<"a">>, <<"v", "1", ".", "0">>, <<"x">>>>,
          <<Word("docs"), <<"a">>, V100, <<"x">>>>,
          <<Word("policies"), <<"a">>>>,
          <<Word("README")>>}

\* the line git diff --name-only prints for a path: the path itself, or,
\* when it holds a character outside printable ASCII, the path in double
\* quotes with that character as an octal escape (core.quotePath)
Unusual(c) == c = "U+00E9"

QuoteSegment(seg) ==
    [i \in 1..Len(seg) |-> IF Unusual(seg[i]) THEN "\\303\\251" ELSE seg[i]]

GitDiffLine(path) ==
    IF \E i \in 1..Len(path) : \E j \in 1..Len(path[i]) : Unusual(path[i][j])
    THEN [i \in 1..Len(path) |->
             (IF i = 1 THEN <<"\"">> ELSE <<>>)
             \o QuoteSegment(path[i])
             \o (IF i = Len(path) THEN <<"\"">> ELSE <<>>)]
    ELSE path

\* /^v\d+\.\d+\.\d+$/ on a segment
Digit(c) == c \in {"0", "1", "2"}

RECURSIVE MatchDigits(_, _)
\* the position after the run of digits that starts at i (i: no digit there)
MatchDigits(s, i) ==
    IF i <= Len(s) /\ Digit(s[i]) THEN MatchDigits(s, i + 1) ELSE i

MatchesVersion(s) ==
    LET a == MatchDigits(s, 2)
        b == MatchDigits(s, a + 1)
        c == MatchDigits(s, b + 1) IN
    /\ Len(s) >= 1 /\ s[1] = "v"
    /\ a > 2 /\ a <= Len(s) /\ s[a] = "."
    /\ b > a + 1 /\ b <= Len(s) /\ s[b] = "."
    /\ c > b + 1 /\ c = Len(s) + 1

\* parts: the line split at '/'
isValidPolicyPath(parts) ==
    /\ Len(parts) >= 3
    /\ parts[1] = Word("policies")
    /\ MatchesVersion(parts[3])

\* the folder of a path, or the empty sequence for null
extractPolicyFolder(parts) ==
    IF Len(parts) >= 3 /\ parts[1] = Word("policies")
    THEN SubSeq(parts, 1, 3) ELSE <<>>

\* a.localeCompare(b) on names and versions made of letters, digits and
\* dots: -1, 0 or 1, character by character, a prefix first
CollationRank(c) ==
    IF c = "." THEN 1 ELSE IF c = "0" THEN 2 ELSE IF c = "1" THEN 3
    ELSE IF c = "2" THEN 4 ELSE IF c = "a" THEN 5 ELSE IF c = "b" THEN 6
    ELSE IF c = "v" THEN 7 ELSE 8

RECURSIVE localeCompare(_, _)
localeCompare(a, b) ==
    IF a = <<>> /\ b = <<>> THEN 0
    ELSE IF a = <<>> THEN -1
    ELSE IF b = <<>> THEN 1
    ELSE IF CollationRank(Head(a)) < CollationRank(Head(b)) THEN -1
    ELSE IF CollationRank(Head(a)) > CollationRank(Head(b)) THEN 1
    ELSE localeCompare(Tail(a), Tail(b))

\* the comparator looks at the names only
ComparePolicies_NameOnly(a, b) == localeCompare(a.name, b.name)

\* the comparator of newPolicies.sort
ComparePolicies(a, b) ==
    IF a.name # b.name THEN localeCompare(a.name, b.name)
    ELSE localeCompare(a.version, b.version)

\* Array.prototype.sort with that comparator (a stable sort)
RECURSIVE InsertSorted(_, _)
InsertSorted(sorted, x) ==
    IF sorted = <<>> THEN <<x>>
    ELSE IF ComparePolicies(x, Head(sorted)) < 0 THEN <<x>> \o sorted
    ELSE <<Head(sorted)>> \o InsertSorted(Tail(sorted), x)

RECURSIVE SortPolicies(_)
SortPolicies(list) ==
    IF list = <<>> THEN <<>>
    ELSE InsertSorted(SortPolicies(SubSeq(list, 1, Len(list) - 1)),
                      list[Len(list)])

\* policyFolders: a Set, which keeps the order of first insertion
RECURSIVE CollectFolders(_, _)
CollectFolders(changedFiles, policyFolders) ==
    IF changedFiles = <<>> THEN policyFolders
    ELSE LET file == Head(changedFiles)
             folder == extractPolicyFolder(file)
             add == isValidPolicyPath(file) /\ folder # <<>>
                    /\ folder \notin Range(policyFolders) IN
         CollectFolders(Tail(changedFiles),
                        IF add THEN Append(policyFolders, folder)
                        ELSE policyFolders)


\* detectChangedPolicies from the lines of the diff on: the folders of the
\* valid paths, once each (changed), and those without a record in
\* delivered.json, sorted by name and version (policies)
detectPolicyFolders(changedFiles, deliveryState) ==
    LET policyFolders == CollectFolders(changedFiles, <<>>)
        policies == [i \in 1..Len(policyFolders) |->
                        [path |-> policyFolders[i],
                         name |-> policyFolders[i][2],
                         version |-> policyFolders[i][3]]]
        NotDelivered(policy) == policy.path \notin deliveryState
        newPolicies == SelectSeq(policies, NotDelivered) IN
    [changed |-> policies,
     policies |-> SortPolicies(newPolicies),
     count |-> Len(newPolicies)]

\* the changed files of a diff in the order git reports them, and the keys
\* of delivered.json
RECURSIVE PathLists(_)
PathLists(n) ==
    IF n = 0 THEN {<<>>}
    ELSE LET shorter == PathLists(n - 1) IN
         shorter \cup {Append(l, f) : l \in {s \in shorter : Len(s) = n - 1},
                                      f \in ChangedPaths}

DetectInputs ==
    {[paths |-> l, deliveryState |-> d] :
        l \in {s \in PathLists(MaxPaths) :
                  \A i, j \in 1..Len(s) : s[i] = s[j] => i = j},
        d \in {{}, {<<Word("policies"), <<"a">>, V100>>}}}

DetectInit ==
    /\ WorkflowInit({[p \in Policies |-> "absent"]})
    /\ callArgs \in {<<a>> : a \in DetectInputs}
    /\ callResult = NoCall
    /\ concRuns = NoConcRuns
    /\ writers = NoWriters
    /\ limiter = NoLimiter

\* the lines git prints for a list of paths
DiffLines(paths) == [i \in 1..Len(paths) |-> GitDiffLine(paths[i])]

\* one call of detect on the diff drawn
CallDetect ==
    /\ Len(callArgs) = 1
    /\ Len(callResult) = 0
    /\ callResult' = <<detectPolicyFolders(DiffLines(callArgs[1].paths),
                                           callArgs[1].deliveryState)>>
    /\ UNCHANGED <<workflowVars, callArgs, concRuns, writers, limiter>>

DetectSpec == DetectInit /\ [][CallDetect]_vars

\* the artifact directory pattern on a changed path
MatchesPattern(path) ==
    /\ Len(path) >= 3
    /\ path[1] = Word("policies")
    /\ MatchesVersion(path[3])

\* the folders detect found, before its filter on delivered.json
DetectedFolders(result) == {result.changed[k].path : k \in 1..Len(result.changed)}

\* ------------------------------------------------------ two overlapping runs
\* two runs of the workflow process the policy X at the same time; the
\* delivered.json each of them checked out has no record of X
X == 1
ConcRunIds == {1, 2}

singleRunVars == <<callArgs, callResult, writers, limiter, headSha, headTree, historyRewritten,
                   baselineSha, baseTree, delivered, ledgerWrites, phase,
                   runNo, runHead, changed, matrix, stage, checkResult,
                   decision, jobState, uploaded, validateCalls, publishCalls,
                   lastStatus, failedSteps, startLedger, startBaseline, prev>>

\* a publish step that got no answer yet
NoAnswer == [kind |-> "none", statusCode |-> 0, body |-> "empty", creates |-> FALSE]

\* each run has its release commit (GITHUB_SHA, the same for a re-run of one
\* release) and its checkout, in which X is valid or not
ConcInit ==
    /\ WorkflowInit({[p \in Policies |-> "absent"]})
    /\ callArgs = NoCall
    /\ callResult = NoCall
    /\ concRuns \in [ConcRunIds ->
          {[sha |-> s, content |-> c, stage |-> "probe", checkResult |-> "none",
            state |-> [p \in Policies |-> NoRec], answer |-> NoAnswer,
            uploaded |-> FALSE] :
              s \in {1, 2}, c \in {"good", "bad"}}]
    /\ writers = NoWriters
    /\ limiter = NoLimiter

\* check-api-existence of run r
ConcProbe(r) ==
    /\ concRuns # NoConcRuns
    /\ concRuns[r].stage = "probe"
    /\ \E response \in GetResponses(X) :
          LET res == checkApiExistence(response, concRuns[r].state, X, r) IN
          concRuns' = [concRuns EXCEPT
              ![r].state = res.state,
              ![r].checkResult = res.checkResult,
              ![r].uploaded = res.shouldSkip,
              ![r].stage = IF res.shouldSkip THEN "exists" ELSE "validate"]
    /\ UNCHANGED <<singleRunVars, apiVars>>

\* validate of run r
ConcValidate(r) ==
    /\ concRuns # NoConcRuns
    /\ concRuns[r].stage = "validate"
    /\ LET res == validatePolicy(concRuns[r].content) IN
       concRuns' = [concRuns EXCEPT
           ![r].stage = IF res.valid THEN "ready" ELSE "invalid"]
    /\ UNCHANGED <<singleRunVars, apiVars>>

\* check-status of run r, on the delivered.json of its checkout
ConcCheckStatus(r) ==
    /\ concRuns # NoConcRuns
    /\ concRuns[r].stage = "ready"
    /\ LET d == shouldDeliver(X, concRuns[r].state) IN
       concRuns' = [concRuns EXCEPT
           ![r].stage = IF d.shouldDeliver THEN "publish" ELSE "skipped"]
    /\ UNCHANGED <<singleRunVars, apiVars>>

\* publish of run r
ConcPublish(r) ==
    /\ concRuns # NoConcRuns
    /\ concRuns[r].stage = "publish"
    /\ \E response \in PostResponses(X, concRuns[r].sha) :
          LET res == publishPolicy(response) IN
          /\ registry' = IF response.creates THEN registry \cup {X} ELSE registry
          /\ created' = IF response.creates THEN [created EXCEPT ![X] = @ + 1]
                        ELSE created
          /\ keysSeen' = IF response.creates THEN keysSeen \cup {concRuns[r].sha}
                         ELSE keysSeen
          /\ concRuns' = [concRuns EXCEPT
                 ![r].answer = response,
                 ![r].stage = IF res.published THEN "published" ELSE "pubfailed"]
    /\ UNCHANGED singleRunVars

\* update-state of run r and upload of its state artifact
ConcUpdateState(r) ==
    /\ concRuns # NoConcRuns
    /\ concRuns[r].stage = "published"
    /\ LET res == updateDeliveryState(concRuns[r].state, X, r, r) IN
       concRuns' = [concRuns EXCEPT
           ![r].state = res.state,
           ![r].uploaded = TRUE,
           ![r].stage = "recorded"]
    /\ UNCHANGED <<singleRunVars, apiVars>>

ConcNext ==
    \E r \in ConcRunIds :
        \/ ConcProbe(r)
        \/ ConcValidate(r)
        \/ ConcCheckStatus(r)
        \/ ConcPublish(r)
        \/ ConcUpdateState(r)

ConcSpec == ConcInit /\ [][ConcNext]_vars

\* the answer to a publish request that reports a failure of the request
\* itself: no response, a status that is neither 2xx nor 409, or a body the
\* step cannot read
FailureAnswer(answer) ==
    \/ answer.kind = "error"
    \/ answer.statusCode \notin (200..299) \cup {409}
    \/ (answer.statusCode # 409 /\ parseResponseBody(answer.body) = "null")

\* ------------------------------------------------- the delivery-status check
\* the step reports that a policy with a record is to be delivered again
checkDeliveryStatus_Redelivers(policyPath, policySha, deliveryState) ==
    IF deliveryState[policyPath] = NoRec
    THEN [shouldDeliver |-> TRUE, reason |-> "never-delivered"]
    ELSE [shouldDeliver |-> TRUE, reason |-> "sha-changed"]

\* check-status: reads delivered.json and decides on the record alone; the
\* policy-sha input is not read
checkDeliveryStatus(policyPath, policySha, deliveryState) ==
    shouldDeliver(policyPath, deliveryState)

\* delivered.json files: per policy no record, a record of a publish, or a
\* record written by the probe
StatusRecords ==
    {NoRec,
     [deliveredAt |-> 1, release |-> 1, note |-> "undefined"],
     [deliveredAt |-> 1, release |-> ApiExisting, note |-> "api-existing"]}

\* a policy, its current commit, a delivered.json, and the commit the policy
\* had when its record (if any) was written
StatusInputs ==
    {[policyPath |-> p, policySha |-> s, deliveryState |-> d, deliveredSha |-> t] :
        p \in Policies, s \in 1..3, d \in [Policies -> StatusRecords], t \in 1..3}

StatusInit ==
    /\ WorkflowInit({[p \in Policies |-> "absent"]})
    /\ callArgs \in {<<a>> : a \in StatusInputs}
    /\ callResult = NoCall
    /\ concRuns = NoConcRuns
    /\ writers = NoWriters
    /\ limiter = NoLimiter

\* one call of check-status on the input drawn
CallCheckDeliveryStatus ==
    /\ Len(callArgs) = 1
    /\ Len(callResult) = 0
    /\ callResult' = <<checkDeliveryStatus(callArgs[1].policyPath,
                                           callArgs[1].policySha,
                                           callArgs[1].deliveryState)>>
    /\ UNCHANGED <<workflowVars, callArgs, concRuns, writers, limiter>>

StatusSpec == StatusInit /\ [][CallCheckDeliveryStatus]_vars

\* ------------------------------------- check-api-existence on a state file
\* what reading and writing the state file does during the probe's update:
\* both work, readFile or JSON.parse throws, mkdir or writeFile throws
FileOutcomes == {"ok", "read-fails", "write-fails"}

\* the probe's mark-as-delivered on the file: an error of the read or of the
\* write is caught and logged as a warning, the file is as it was
updateStateForExistingPolicyOnFile(file, policyPath, now, io) ==
    IF io = "ok" THEN updateStateForExistingPolicy(file, policyPath, now)
    ELSE file

\* check-api-existence with its state file: the outputs are set after the
\* update returns, whatever became of it
checkApiExistenceOnFile(response, file, policyPath, now, io) ==
    LET r == checkApiExistence(response, file, policyPath, now) IN
    [r EXCEPT !.state =
        IF r.shouldSkip
        THEN updateStateForExistingPolicyOnFile(file, policyPath, now, io)
        ELSE file]

\* status codes a registry or a proxy in front of it may answer a GET with
ProbeStatuses == {200, 201, 204, 302, 401, 404, 409, 500, 503}

\* answers to the GET: no response (transport error or the 30 s timeout), or
\* a response whose body is JSON or is not
ProbeAnswers ==
    {[kind |-> "error", statusCode |-> 0, json |-> FALSE]}
    \cup {[kind |-> "response", statusCode |-> s, json |-> j] :
             s \in ProbeStatuses, j \in BOOLEAN}

\* state files the probe may find: no record, or a record of another policy
ProbeFiles ==
    {[p \in Policies |-> NoRec]}
    \cup {[p \in Policies |-> IF p = q THEN [deliveredAt |-> 1, release |-> 1,
                                              note |-> "undefined"]
                              ELSE NoRec] : q \in {3}}

ProbeInputs ==
    {[response |-> a, policyPath |-> p, file |-> f, io |-> o] :
        a \in ProbeAnswers, p \in {1, 2}, f \in ProbeFiles, o \in FileOutcomes}

ProbeInit ==
    /\ WorkflowInit({[p \in Policies |-> "absent"]})
    /\ callArgs \in {<<a>> : a \in ProbeInputs}
    /\ callResult = NoCall
    /\ concRuns = NoConcRuns
    /\ writers = NoWriters
    /\ limiter = NoLimiter

\* one call of check-api-existence on the input drawn, at instant 2
CallCheckApiExistence ==
    /\ Len(callArgs) = 1
    /\ Len(callResult) = 0
    /\ callResult' = <<checkApiExistenceOnFile(callArgs[1].response,
                                               callArgs[1].file,
                                               callArgs[1].policyPath, 2,
                                               callArgs[1].io)>>
    /\ UNCHANGED <<workflowVars, callArgs, concRuns, writers, limiter>>

ProbeSpec == ProbeInit /\ [][CallCheckApiExistence]_vars

\* the probe's answer in the words of the pipeline
ProbeOutcome(r) ==
    IF r.checkResult = "exists-in-api" THEN "Exists"
    ELSE IF r.checkResult = "not-in-api" THEN "NotFound"
    ELSE "Unknown"

\* ------------------------------------------- scripts/validate-policy.sh
MaxFindings == 2    \* errors one check of the script may find

\* exit status of the arithmetic command (( x++ )): the value of the
\* expression is x before the increment, and a value of 0 is status 1
PostIncrementStatus(x) == IF x = 0 THEN 1 ELSE 0

\* a check that runs `((errors++))` once per finding under `set -e` and ends
\* in `return $errors`: a command of non-zero status ends the script
RECURSIVE CountErrors(_, _)
CountErrors(errors, findings) ==
    IF findings = 0 THEN [exit |-> FALSE, status |-> errors]
    ELSE IF PostIncrementStatus(errors) # 0
         THEN [exit |-> TRUE, status |-> PostIncrementStatus(errors)]
         ELSE CountErrors(errors + 1, findings - 1)

\* required files, directories and docs files that are missing
validate_policy_structure(missing) == CountErrors(0, missing)

\* metadata.json absent or not JSON: return 1; else one error per required
\* field that is missing and one per referenced file that is missing
validate_metadata(file, fields, references) ==
    IF file # "valid" THEN [exit |-> FALSE, status |-> 1]
    ELSE LET f == CountErrors(0, fields)
             r == CountErrors(0, references) IN
         IF f.exit THEN f
         ELSE IF r.exit \/ r.status # 0 THEN [exit |-> TRUE, status |-> r.status]
         ELSE [exit |-> FALSE, status |-> f.status + r.status]

\* go build of the policy's sources
validate_go_build(build) == CountErrors(0, IF build = "fails" THEN 1 ELSE 0)

\* a function called as a plain command under `set -e`: a non-zero return
\* ends the script with that status before `$?` is read
PlainCall(r, total) ==
    IF r.exit \/ r.status # 0
    THEN [exit |-> TRUE, status |-> r.status, total |-> total]
    ELSE [exit |-> FALSE, status |-> 0, total |-> total + r.status]

\* `((total_errors++))` in the body of an if
BumpTotal(total) ==
    [exit |-> PostIncrementStatus(total) # 0,
     status |-> PostIncrementStatus(total), total |-> total + 1]

\* main of validate-policy.sh: exit status, whether the script reached its
\* summary (all checks run), and total_errors there
main(a) ==
    LET s0 == [exit |-> FALSE, status |-> 0, total |-> 0]
        s1 == IF a.nameOk THEN s0 ELSE BumpTotal(s0.total)
        s2 == IF s1.exit \/ a.versionOk THEN s1 ELSE BumpTotal(s1.total)
        s3 == IF s2.exit \/ a.dirExists THEN s2
              ELSE [exit |-> TRUE, status |-> 1, total |-> s2.total]
        s4 == IF s3.exit THEN s3
              ELSE PlainCall(validate_policy_structure(a.missing), s3.total)
        s5 == IF s4.exit THEN s4
              ELSE PlainCall(validate_metadata(a.metadata, a.fields, a.references),
                             s4.total)
        s6 == IF s5.exit \/ a.build = "off" THEN s5
              ELSE PlainCall(validate_go_build(a.build), s5.total) IN
    IF s6.exit THEN [status |-> s6.status, summary |-> FALSE, total |-> s6.total]
    ELSE IF s6.total = 0 THEN [status |-> 0, summary |-> TRUE, total |-> 0]
    ELSE IF ~a.strictValidation
         THEN [status |-> 0, summary |-> TRUE, total |-> s6.total]
         ELSE [status |-> 1, summary |-> TRUE, total |-> s6.total]

\* a configuration and a policy folder: what each check will find
ScriptInputs ==
    {[strictValidation |-> s, nameOk |-> n, versionOk |-> v, dirExists |-> d,
      missing |-> m, metadata |-> f, fields |-> e, references |-> r, build |-> b] :
        s \in BOOLEAN, n \in BOOLEAN, v \in BOOLEAN, d \in BOOLEAN,
        m \in 0..MaxFindings, f \in {"absent", "valid"}, e \in 0..MaxFindings,
        r \in 0..1, b \in {"off", "ok", "fails"}}

\* the validation errors in the policy the script is run on
ErrorsPresent(a) ==
    (IF a.nameOk THEN 0 ELSE 1) + (IF a.versionOk THEN 0 ELSE 1) + a.missing
    + (IF a.metadata = "valid" THEN a.fields + a.references ELSE 1)
    + (IF a.build = "fails" THEN 1 ELSE 0)

ScriptInit ==
    /\ WorkflowInit({[p \in Policies |-> "absent"]})
    /\ callArgs \in {<<a>> : a \in ScriptInputs}
    /\ callResult = NoCall
    /\ concRuns = NoConcRuns
    /\ writers = NoWriters
    /\ limiter = NoLimiter

\* one run of the script on the input drawn
RunValidateScript ==
    /\ Len(callArgs) = 1
    /\ Len(callResult) = 0
    /\ callResult' = <<main(callArgs[1])>>
    /\ UNCHANGED <<workflowVars, callArgs, concRuns, writers, limiter>>

ScriptSpec == ScriptInit /\ [][RunValidateScript]_vars

\* ------------------------------- policies/rate-limiter/v1.0.6/src/main.go
MaxClock == 6       \* clock readings, in half minutes
MaxRequests == 5    \* requests the policy handles
MaxRate == 3        \* requestsPerMinute, in halves (float64 parameter)
MaxBurst == 2       \* burstLimit, in halves (float64 parameter)

\* time.Minute in clock ticks
Minute == 2
\* the zero time.Time of a new policy value: more than a minute before any
\* clock reading
ZeroTime == 0 - (Minute + 1)

\* int(x) of a float64 parameter given in halves: truncation
IntOfHalves(h) == h \div 2

\* the limit is passed only when the count exceeds it
OnRequest_OffByOne(r, now, params) ==
    LET rpm == IntOfHalves(params.requestsPerMinute)
        burst == IntOfHalves(params.burstLimit)
        reset == now - r.lastReset > Minute
        count == IF reset THEN 0 ELSE r.requestCounts
        lastReset == IF reset THEN now ELSE r.lastReset IN
    IF count > rpm + burst
    THEN [requestCounts |-> count, lastReset |-> lastReset, action |-> "429"]
    ELSE [requestCounts |-> count + 1, lastReset |-> lastReset,
          action |-> "upstream"]

\* OnRequest on the policy value r at clock reading now: requestCounts is the
\* entry of the one client key "127.0.0.1" (0 when the map is nil or new)
OnRequest(r, now, params) ==
    LET rpm == IntOfHalves(params.requestsPerMinute)
        burst == IntOfHalves(params.burstLimit)
        reset == now - r.lastReset > Minute
        count == IF reset THEN 0 ELSE r.requestCounts
        lastReset == IF reset THEN now ELSE r.lastReset IN
    IF count >= rpm + burst
    THEN [requestCounts |-> count, lastReset |-> lastReset, action |-> "429"]
    ELSE [requestCounts |-> count + 1, lastReset |-> lastReset,
          action |-> "upstream"]

\* a new policy value with parameters that Validate accepts; handled, passed
\* and resets count the requests, those sent upstream since the last reset,
\* and the resets
LimiterInit ==
    /\ WorkflowInit({[p \in Policies |-> "absent"]})
    /\ callArgs = NoCall
    /\ callResult = NoCall
    /\ concRuns = NoConcRuns
    /\ writers = NoWriters
    /\ limiter \in {[requestCounts |-> 0, lastReset |-> ZeroTime, now |-> 0,
                     params |-> [requestsPerMinute |-> m, burstLimit |-> b],
                     action |-> "none", handled |-> 0, passed |-> 0,
                     resets |-> 0] : m \in 0..MaxRate, b \in 0..MaxBurst}

\* half a minute passes
Tick ==
    /\ limiter.now < MaxClock
    /\ limiter' = [limiter EXCEPT !.now = @ + 1]
    /\ UNCHANGED <<workflowVars, callArgs, callResult, concRuns, writers>>

\* the gateway calls OnRequest for one request
HandleRequest ==
    /\ limiter.handled < MaxRequests
    /\ LET res == OnRequest(limiter, limiter.now, limiter.params)
           reset == res.lastReset # limiter.lastReset IN
       limiter' = [limiter EXCEPT
                      !.requestCounts = res.requestCounts,
                      !.lastReset = res.lastReset,
                      !.action = res.action,
                      !.handled = @ + 1,
                      !.resets = IF reset THEN @ + 1 ELSE @,
                      !.passed = (IF reset THEN 0 ELSE @)
                                 + (IF res.action = "upstream" THEN 1 ELSE 0)]
    /\ UNCHANGED <<workflowVars, callArgs, callResult, concRuns, writers>>

LimiterNext == Tick \/ HandleRequest

LimiterSpec == LimiterInit /\ [][LimiterNext]_vars

\* ------------------------------------------- update-state on a state file
\* update-state with its state file: an error of the read or of the write
\* leaves the file as it was and ends the step; after a write the outputs
\* are set and the return statement throws
updateDeliveryStateOnFile(file, policyPath, releaseTag, now, io) ==
    IF io = "ok" THEN updateDeliveryState(file, policyPath, releaseTag, now)
    ELSE [state |-> file, stateUpdated |-> FALSE, failed |-> TRUE]

\* state files update-state may find: no record, a record of another policy,
\* a record of the policy itself
UpdateFiles ==
    {[p \in Policies |-> NoRec]}
    \cup {[p \in Policies |-> IF p = q THEN [deliveredAt |-> 1, release |-> 1,
                                              note |-> "undefined"]
                              ELSE NoRec] : q \in {1, 3}}

UpdateInputs ==
    {[policyPath |-> p, releaseTag |-> t, file |-> f, io |-> o] :
        p \in {1, 2}, t \in 2..4, f \in UpdateFiles, o \in FileOutcomes}

UpdateInit ==
    /\ WorkflowInit({[p \in Policies |-> "absent"]})
    /\ callArgs \in {<<a>> : a \in UpdateInputs}
    /\ callResult = NoCall
    /\ concRuns = NoConcRuns
    /\ writers = NoWriters
    /\ limiter = NoLimiter

\* one call of update-state on the input drawn, at instant 2
CallUpdateDeliveryState ==
    /\ Len(callArgs) = 1
    /\ Len(callResult) = 0
    /\ callResult' = <<updateDeliveryStateOnFile(callArgs[1].file,
                                                 callArgs[1].policyPath,
                                                 callArgs[1].releaseTag, 2,
                                                 callArgs[1].io)>>
    /\ UNCHANGED <<workflowVars, callArgs, concRuns, writers, limiter>>

UpdateSpec == UpdateInit /\ [][CallUpdateDeliveryState]_vars

\* --------------------------------- two operations on the same state file
WriterIds == {1, 2}

\* two state-writing operations for distinct policies are started on one
\* file: update-state (for a release) or the probe's mark-as-delivered
WritersInit ==
    /\ WorkflowInit({[p \in Policies |-> "absent"]})
    /\ callArgs = NoCall
    /\ callResult = NoCall
    /\ concRuns = NoConcRuns
    /\ limiter = NoLimiter
    /\ writers \in
          {[file |-> f,
            ops |-> [i \in WriterIds |->
                        [kind |-> k[i], policyPath |-> pp[i], pc |-> "read",
                         deliveryState |-> [p \in Policies |-> NoRec]]]] :
              f \in ProbeFiles,
              k \in [WriterIds -> {"update-state", "probe"}],
              pp \in {<<1, 2>>, <<2, 1>>, <<1, 3>>, <<2, 3>>}}

\* readDeliveryState of operation i: the whole file is read into memory
ReadState(i) ==
    /\ writers.ops[i].pc = "read"
    /\ writers' = [writers EXCEPT !.ops[i].deliveryState = writers.file,
                                  !.ops[i].pc = "write"]
    /\ UNCHANGED <<workflowVars, callArgs, callResult, concRuns, limiter>>

\* operation i sets its record in its copy and writeDeliveryState replaces
\* the file's content by that copy
WriteState(i) ==
    /\ writers.ops[i].pc = "write"
    /\ LET op == writers.ops[i]
           state == IF op.kind = "probe"
                    THEN updateStateForExistingPolicy(op.deliveryState,
                                                      op.policyPath, i)
                    ELSE updatePolicyRecord(op.deliveryState, op.policyPath,
                                            1, i) IN
       writers' = [writers EXCEPT !.file = state,
                                  !.ops[i].deliveryState = state,
                                  !.ops[i].pc = "done"]
    /\ UNCHANGED <<workflowVars, callArgs, callResult, concRuns, limiter>>

WritersNext == \E i \in WriterIds : ReadState(i) \/ WriteState(i)

WritersSpec == WritersInit /\ [][WritersNext]_vars

CompletedRun == phase = "done"

GoodOutcomes == \A p \in changed : Outcome(p) \in {"skipped", "delivered"}

\* ------------------------------------------------------------------ claims

C3_CreatedOnce ==
    [][\A p \in Policies :
          /\ created'[p] <= 1
          /\ (publishCalls'[p] = publishCalls[p] + 1 /\ p \in registry) =>
                /\ created'[p] = created[p]
                /\ lastStatus'[p] \in {0, 409, 500}
                /\ (lastStatus'[p] = 409 => stage'[p] = "published")]_vars

\* a policy created by an earlier run that left no record, probed without
\* answer (Unknown) in this run, published again, answered 409 and recorded
C3_Witness ==
    \E p \in Policies :
        /\ runNo >= 2
        /\ startLedger[p] = NoRec
        /\ checkResult[p] = "check-failed"
        /\ lastStatus[p] = 409
        /\ created[p] = 1
        /\ stage[p] = "recorded"

C10_ProbeFailsOpen ==
    \A p \in Policies :
        /\ checkResult[p] = "check-failed" =>
              /\ <<p, "check-api-existence">> \notin failedSteps
              /\ stage[p] \notin {"probe", "exists"}
              /\ (stage[p] = "validate" => jobState[p] = startLedger /\ p \notin uploaded)
              /\ delivered[p] = NoRec \/ stage[p] = "recorded"
        /\ stage[p] = "probe" =>
           \A u \in {r \in GetResponses(p) : checkPolicyExistsInApi(r) = "throw"} :
              LET unknown == checkApiExistence(u, jobState[p], p, runNo)
                  notFound == checkApiExistence(
                      [kind |-> "response", statusCode |-> 404, json |-> TRUE],
                      jobState[p], p, runNo) IN
              /\ unknown.shouldSkip = notFound.shouldSkip
              /\ unknown.state = notFound.state
              /\ unknown.failed = notFound.failed

\* a policy whose probe ended in Unknown was validated, published and
\* recorded
C10_Witness ==
    \E p \in Policies :
        /\ checkResult[p] = "check-failed"
        /\ validateCalls[p] = 1
        /\ publishCalls[p] = 1
        /\ stage[p] = "recorded"

\* C11 (as stated): for every status of the response to the publish request
\* the result of publishToApi is a success if and only if the status is 2xx
\* or 409, and a failure carries the response's message or its status code.
C11_Original ==
    (Len(callResult) = 1 /\ callArgs[1].kind = "response") =>
        LET response == callArgs[1]
            result == callResult[1] IN
        /\ result.success <=>
              \/ (response.statusCode >= 200 /\ response.statusCode <= 299)
              \/ response.statusCode = 409
        /\ ~result.success =>
              \/ result.message \in {"response-message", "api-returned-status"}
              \/ result.statusCode = response.statusCode

\* C12: a publish request that ends in a transport error or a timeout (a
\* result without status code) makes the publish step fail, and a run issues
\* at most one publish request per policy: a policy whose publish failed
\* stays failed, without state file and without record, when the run ends.
C12_NoRetryInRun ==
    \A p \in Policies :
        /\ publishCalls[p] <= 1
        /\ stage[p] = "publish" =>
              \A r \in PostResponses(p, runHead) :
                  r.kind = "error" => /\ ~publishPolicy(r).published
                                      /\ publishPolicy(r).failed
        /\ (publishCalls[p] = 1 /\ lastStatus[p] = 0) =>
              /\ stage[p] = "pubfailed"
              /\ <<p, "publish">> \in failedSteps
        /\ stage[p] = "pubfailed" =>
              /\ publishCalls[p] = 1
              /\ p \notin uploaded
              /\ delivered[p] = NoRec

\* a run ended with a policy whose one publish request got no answer
C12_Witness ==
    \E p \in Policies :
        /\ CompletedRun
        /\ publishCalls[p] = 1
        /\ lastStatus[p] = 0
        /\ stage[p] = "pubfailed"
        /\ p \notin registry
        /\ delivered[p] = NoRec

C17_MergeDeterministic ==
    LET n == Len(matrix)
        orders == {o \in [1..n -> Range(matrix)] :
                      \A i, j \in 1..n : o[i] = o[j] => i = j} IN
    /\ (phase = "matrix" /\ \A p \in Range(matrix) : stage[p] \in Terminal) =>
          \A o \in orders :
              MergeStates(startLedger, Artifacts(o)) =
                  MergeStates(startLedger, Artifacts(matrix))
    /\ \A p \in uploaded :
          \A q \in Policies \ {p} : jobState[p][q] = startLedger[q]
    /\ (CompletedRun /\ n > 0) =>
          delivered = MergeStates(startLedger, Artifacts(matrix))

\* a run merged the state files of two jobs into a delivered.json that
\* already had a record
C17_Witness ==
    /\ CompletedRun
    /\ Cardinality(uploaded) >= 2
    /\ \E p \in Policies : startLedger[p] # NoRec
    /\ \A p \in uploaded : delivered[p] # NoRec /\ startLedger[p] = NoRec

\* C18 (as stated): the committed delivered.json differs from the one of the
\* run's start only after the finalize job, and every run with a non-empty
\* change set that reaches its end has written it exactly once.
C18_Original ==
    /\ delivered # startLedger => phase = "done"
    /\ (phase = "done" /\ changed # {}) => ledgerWrites = 1

\* C18 (amended): the jobs of a run work on the delivered.json of the run's
\* start; the committed file is written by the finalize job alone, at most
\* once per run: once in a run that had a policy to process and reached the
\* end of its finalize job, never in a run with no policy to process nor in
\* one that failed or was cancelled; no probe, validate, publish or
\* update-state step writes it.
C18_SingleWriter ==
    /\ ledgerWrites = (IF phase = "done" /\ matrix # <<>> THEN 1 ELSE 0)
    /\ delivered # startLedger => ledgerWrites = 1
    /\ \A p \in Range(matrix) :
          /\ startLedger[p] = NoRec
          /\ \A q \in Policies \ {p} : jobState[p][q] = startLedger[q]

\* a run in which a probe and an update-state step each wrote the state file
\* of their job ended with one commit of delivered.json
C18_Witness ==
    \E p, q \in Policies :
        /\ CompletedRun
        /\ ledgerWrites = 1
        /\ checkResult[p] = "exists-in-api"
        /\ stage[q] = "recorded"
        /\ jobState[p][q] = NoRec
        /\ jobState[q][p] = NoRec
        /\ delivered[p] # NoRec
        /\ delivered[q] # NoRec

ArtifactState(inChanged, inMatrix, st) ==
    IF ~inChanged THEN "None"
    ELSE IF ~inMatrix THEN "Skipped"
    ELSE IF st = "probe" THEN "Pending"
    ELSE IF st = "validate" THEN "Probed"
    ELSE IF st \in {"ready", "publish"} THEN "Validated"
    ELSE IF st = "invalid" THEN "ValidationFailed"
    ELSE IF st \in {"exists", "published", "recorded"} THEN "Delivered"
    ELSE IF st = "pubfailed" THEN "PublishFailed"
    ELSE IF st = "skipped" THEN "Skipped"
    ELSE "None"

\* the moves of the state machine; a policy the probe finds is Delivered
\* without validation
ArtifactMoves ==
    {<<"Pending", "Probed">>, <<"Pending", "Delivered">>,
     <<"Probed", "Validated">>, <<"Probed", "ValidationFailed">>,
     <<"Validated", "Delivered">>, <<"Validated", "PublishFailed">>}

C22_DeterministicKey ==
    Len(callResult) = 2 =>
        LET a == callArgs[1]
            b == callArgs[2] IN
        /\ \A i \in 1..2 :
              callResult[i].idempotencyKey =
                  (IF callArgs[i].githubSha # UnsetSha THEN callArgs[i].githubSha
                   ELSE UnknownSha)
        /\ (a.policy = b.policy /\ a.githubSha = b.githubSha) =>
              callResult[1].idempotencyKey = callResult[2].idempotencyKey
        /\ a.githubSha = b.githubSha =>
              callResult[1].idempotencyKey = callResult[2].idempotencyKey

\* two requests for one policy and one commit, made at different instants
C22_Witness ==
    /\ Len(callArgs) = 2
    /\ Len(callResult) = 2
    /\ callArgs[1].policy = callArgs[2].policy
    /\ callArgs[1].githubSha = callArgs[2].githubSha
    /\ callArgs[1].githubSha # UnsetSha
    /\ callArgs[1].now # callArgs[2].now
    /\ callResult[1].body.timestamp # callResult[2].body.timestamp
    /\ callResult[1].idempotencyKey = callResult[2].idempotencyKey

\* C23 (as stated): detect returns the folder of a changed path if and only
\* if the path has at least three segments, the first is 'policies' and the
\* third matches v<digits>.<digits>.<digits>; no other path contributes.
C23_Original ==
    Len(callResult) = 1 =>
        LET paths == callArgs[1].paths
            found == DetectedFolders(callResult[1]) IN
        /\ \A i \in 1..Len(paths) :
              MatchesPattern(paths[i]) <=>
                  (Len(paths[i]) >= 3 /\ SubSeq(paths[i], 1, 3) \in found)
        /\ \A folder \in found :
              \E i \in 1..Len(paths) :
                  MatchesPattern(paths[i]) /\ SubSeq(paths[i], 1, 3) = folder

\* C24 (as stated): detect returns no folder twice, and the changed files
\* under one policies/<name>/<version> directory, however many, give exactly
\* one entry.
C24_Original ==
    Len(callResult) = 1 =>
        LET paths == callArgs[1].paths
            result == callResult[1] IN
        /\ \A i, j \in 1..Len(result.changed) :
              result.changed[i].path = result.changed[j].path => i = j
        /\ \A i, j \in 1..Len(result.policies) :
              result.policies[i].path = result.policies[j].path => i = j
        /\ \A i \in 1..Len(paths) :
              MatchesPattern(paths[i]) =>
                  Cardinality({k \in 1..Len(result.changed) :
                      result.changed[k].path = SubSeq(paths[i], 1, 3)}) = 1

\* C25: the list detect returns is in ascending order of name and, for equal
\* names, of version (both compared as text), and is the same list for
\* every order in which the diff lists the changed files.
C25_SortedDetection ==
    Len(callResult) = 1 =>
        LET paths == callArgs[1].paths
            n == Len(paths)
            list == callResult[1].policies
            orders == {o \in [1..n -> 1..n] : \A i, j \in 1..n : o[i] = o[j] => i = j} IN
        /\ \A i, j \in 1..Len(list) :
              i < j => \/ localeCompare(list[i].name, list[j].name) < 0
                       \/ /\ list[i].name = list[j].name
                          /\ localeCompare(list[i].version, list[j].version) < 0
        /\ \A o \in orders :
              detectPolicyFolders(DiffLines([i \in 1..n |-> paths[o[i]]]),
                                  callArgs[1].deliveryState).policies = list

\* three folders reported in descending order come back in ascending order,
\* v10.0.0 before v2.0.0
C25_Witness ==
    /\ Len(callArgs) = 1
    /\ Len(callResult) = 1
    /\ Len(callArgs[1].paths) = 3
    /\ Len(callResult[1].policies) = 3
    /\ callResult[1].policies[3].path = SubSeq(callArgs[1].paths[1], 1, 3)
    /\ callResult[1].policies[1].path = SubSeq(callArgs[1].paths[3], 1, 3)
    /\ \E i \in 1..2 :
          /\ callResult[1].policies[i].version = V1000
          /\ callResult[1].policies[i + 1].version = V200

\* C26: a publish step, whatever its result (2xx, 409, another status, no
\* response), changes the registry and the step's own outputs only: the
\* committed delivered.json and baseline.sha, the delivered.json of every
\* job's workspace and the uploaded state artifacts are as before it.
C26_PublishFrame ==
    [][(\E p \in Policies : publishCalls'[p] > publishCalls[p]) =>
          /\ delivered' = delivered
          /\ baselineSha' = baselineSha
          /\ baseTree' = baseTree
          /\ jobState' = jobState
          /\ uploaded' = uploaded
          /\ ledgerWrites' = ledgerWrites
      ]_vars

\* the publish steps of a run have ended in 201, in 409 and in a failure,
\* and the registry holds a policy that delivered.json does not
C26_Witness ==
    \E p, q, r \in Policies :
        /\ stage[p] = "published" /\ lastStatus[p] = 201
        /\ stage[q] = "published" /\ lastStatus[q] = 409
        /\ stage[r] = "pubfailed"
        /\ p \in registry
        /\ delivered = startLedger
        /\ delivered[p] = NoRec
        /\ baselineSha = startBaseline

\* C27: every started run that is not cancelled ends: each policy to process
\* reaches the end of its jobs, and the run then reaches its Summary or the
\* failure of its finalize job; a run whose detect job fails has ended with
\* it.
C27_RunTerminates ==
    /\ (phase = "matrix") ~>
          (phase = "matrix" /\ \A p \in Range(matrix) : stage[p] \in Terminal)
    /\ (phase = "matrix") ~> RunEnded
    /\ [](phase \in {"idle", "matrix"} \/ RunEnded)
    /\ [](RunEnded => \A p \in Policies : stage[p] \in Terminal \cup {"none"})

\* a run of two policies that went through every job has reached its end
C27_Witness ==
    /\ CompletedRun
    /\ Len(matrix) = 2
    /\ \A p \in Range(matrix) : stage[p] \in {"recorded", "pubfailed"}
    /\ \E p \in Range(matrix) : checkResult[p] = "check-failed"
    /\ \E p \in Range(matrix) : lastStatus[p] = 0

C31_Original ==
    Len(callResult) = 1 =>
        LET a == callArgs[1].response
            out == ProbeOutcome(callResult[1]) IN
        IF a.kind = "response" /\ a.statusCode = 200 THEN out = "Exists"
        ELSE IF a.kind = "response" /\ a.statusCode = 404 THEN out = "NotFound"
        ELSE out = "Unknown"

\* C32 (as stated): every policy that has a record in delivered.json is held
\* by the registry, also when several policies are published in one run with
\* the key the code sends (the release commit) and the registry answers 409
\* to a request whose key it has already seen.
C32_Original ==
    \A p \in Policies : delivered[p] # NoRec => p \in registry

\* C37 (as stated): validate-policy.sh run on an existing policy folder
\* exits 0 when strictValidation is false even if errors were found, exits 1
\* exactly when there are errors when it is true, and exits after all checks
\* (name, version, structure, metadata) have been run.
C37_Original ==
    (Len(callResult) = 1 /\ callArgs[1].dirExists) =>
        LET a == callArgs[1]
            r == callResult[1] IN
        /\ ~a.strictValidation => r.status = 0
        /\ a.strictValidation => (r.status = 1 <=> ErrorsPresent(a) > 0)
        /\ r.summary

C33_Original ==
    (writers # NoWriters /\ \A i \in WriterIds : writers.ops[i].pc = "done") =>
        \A i \in WriterIds : writers.file[writers.ops[i].policyPath] # NoRec

\* C34 (as stated): if update-state ends in failure the state file has the
\* content it had before the operation, and an update-state that has written
\* the record and set state-updated = true ends in success.
C34_Original ==
    Len(callResult) = 1 =>
        LET a == callArgs[1]
            r == callResult[1] IN
        /\ r.failed => r.state = a.file
        /\ (r.state[a.policyPath] # a.file[a.policyPath] /\ r.stateUpdated)
              => ~r.failed

\* C35 (as stated): whenever check-api-existence returns should-skip = true,
\* the state file holds a record for the policy when the operation returns,
\* also when reading or writing the file fails during the update.
C35_Original ==
    (Len(callResult) = 1 /\ callResult[1].shouldSkip) =>
        callResult[1].state[callArgs[1].policyPath] # NoRec

\* C36: the set of policies with a record never shrinks: no step of a run
\* and no run removes a key from the committed delivered.json or changes
\* the record of a policy outside the run's change set, and no operation of
\* a job does so in the job's copy of the file while the run lasts.
C36_LedgerGrows ==
    [][/\ \A p \in Policies :
             /\ delivered[p] # NoRec => delivered'[p] # NoRec
             /\ p \notin changed' => delivered'[p] = delivered[p]
       /\ (runNo' = runNo /\ phase' \in {"matrix", "done"}) =>
             \A q, p \in Policies :
                /\ jobState[q][p] # NoRec => jobState'[q][p] # NoRec
                /\ p \notin changed => jobState'[q][p] = jobState[q][p]]_vars

\* a later run has added a record to a committed file that already held one,
\* for a policy outside that run's change set, and the old record is kept
C36_Witness ==
    /\ CompletedRun
    /\ runNo >= 2
    /\ \E p, q \in Policies :
          /\ p \notin changed
          /\ startLedger[p] # NoRec
          /\ delivered[p] = startLedger[p]
          /\ startLedger[q] = NoRec
          /\ delivered[q] # NoRec
          /\ jobState[q][p] = startLedger[p]

====
